---------------------------- MODULE Spec2Model ----------------------------
(***************************************************************************)
(* A model of prefect-aws' ECS engine:                                     *)
(*   - ECSWorker.run and its process-wide task definition cache            *)
(*     (src/prefect_aws/workers/ecs_worker.py),                            *)
(*   - ECSTask.run, the status watcher and the result reporter             *)
(*     (src/prefect_aws/ecs.py),                                           *)
(*   - ECSTask._stream_available_logs (src/prefect_aws/ecs.py).            *)
(* Python dicts are functions whose DOMAIN is the set of keys present;     *)
(* lists are sequences; None is the empty sequence where a value is        *)
(* optional, and 0 for an ARN.                                             *)
(***************************************************************************)
EXTENDS Integers, Sequences, FiniteSets, TLC

VARIABLES
    \* ECSWorker.run (ecs_worker.py)
    wCache,     \* _TASK_DEFINITION_CACHE: key -> task definition ARN
    wRegistry,  \* the service's registered task definitions, ARN n is entry n
    wRun,       \* one record per ECSWorker.run invocation
    wLoop,      \* the invocation running on the event loop (0: none)
    wOrder,     \* per cache key, the invocation that last stored into the cache
    \* ECSTask.run (ecs.py)
    tPc,        \* position of the run
    tRemote,    \* the task as the service holds it
    tTask,      \* `task`: the description the last describe_tasks returned
    tStatus,    \* `status` of _watch_task_run
    tLast,      \* `last_status` of _watch_task_run
    tClock,     \* time.time()
    tT0,        \* `t0` of _watch_task_run
    tConf,      \* task_start_timeout_seconds and task_watch_poll_interval
    tError,     \* the exception the run raised, if any
    tResult,    \* the ECSTaskResult returned, if any
    tHist,      \* history of the run, read by the properties only
    \* ECSTask._stream_available_logs (ecs.py)
    lStream,    \* the log stream as the service holds it: events <<timestamp, id>>
    lPc,        \* "idle" between calls, "loop" inside one
    lLastTs,    \* `last_log_timestamp`, threaded from call to call
    lLastToken, \* `last_log_stream_token`
    lNextToken, \* `next_log_stream_token`
    lDrains,    \* calls completed
    lEmitted,   \* the events printed so far, each with the call that printed it
    lReturned,  \* the timestamps the calls returned
    lRequests,  \* the requests of the current call: token sent, token returned
    lAtCall,    \* the stream as it was when the current call began
    \* Preparation and launch of one run (ecs.py, ecs_worker.py)
    pIn,        \* the configuration: an ECSTask or an ECSJobConfiguration
    pPc,        \* position of the run
    pRequested, \* `requested_task_definition` of ECSTask
    pDoc,       \* `task_definition` as prepared
    pArn,       \* `task_definition_arn`
    pReq,       \* the task run request
    pWarned,    \* warnings.warn was called for the network mode
    pCalls,     \* the calls made to the service, in order
    pError,     \* the exception the run raised, if any
    \* One call of ECSWorker._task_definitions_equal (ecs_worker.py)
    eDoc1,      \* `taskdef_1` as the caller holds it
    eDoc2,      \* `taskdef_2` as the caller holds it
    ePc,        \* position in the call
    eWork1,     \* the copy of taskdef_1 the call works on
    eWork2,     \* the copy of taskdef_2 the call works on
    eResult     \* the value returned

wvars == <<wCache, wRegistry, wRun, wLoop, wOrder>>
tvars == <<tPc, tRemote, tTask, tStatus, tLast, tClock, tT0, tConf, tError, tResult, tHist>>

lvars == <<lStream, lPc, lLastTs, lLastToken, lNextToken, lDrains, lEmitted, lReturned,
           lRequests, lAtCall>>

pvars == <<pIn, pPc, pRequested, pDoc, pArn, pReq, pWarned, pCalls, pError>>

evars == <<eDoc1, eDoc2, ePc, eWork1, eWork2, eResult>>

vars == <<wvars, tvars, lvars, pvars, evars>>

(***************************************************************************)
(* Bounds of the model.                                                    *)
(***************************************************************************)
MaxRuns == 2
MaxTimeout == 2
MaxInterval == 2
MaxLatency == 1
MaxEvents == 3
MaxTs == 3
MaxDrains == 3
PageSize == 2

(***************************************************************************)
(* Program constants.                                                      *)
(***************************************************************************)
ECS_DEFAULT_CPU == 1024
ECS_DEFAULT_MEMORY == 2048

ECS_DEFAULT_CONTAINER_NAME == "prefect"
ECS_DEFAULT_LAUNCH_TYPE == "FARGATE"
ECS_DEFAULT_FAMILY == "prefect"
ECS_POST_REGISTRATION_FIELDS ==
    {"compatibilities", "taskDefinitionArn", "revision", "status",
     "requiresAttributes", "registeredAt", "registeredBy", "deregisteredAt"}

(***************************************************************************)
(* Python values.  A value carries its type; a dict is D(f) with f a       *)
(* function from the keys present to values, a list is L(seq).             *)
(***************************************************************************)
PyNone == [t |-> "none", v |-> 0]
S(x) == [t |-> "str", v |-> x]
I(x) == [t |-> "int", v |-> x]
B(x) == [t |-> "bool", v |-> x]
L(x) == [t |-> "list", v |-> x]
D(x) == [t |-> "dict", v |-> x]

\* bool(value)
Truthy(x) ==
    CASE x.t = "none" -> FALSE
      [] x.t = "bool" -> x.v
      [] x.t = "int"  -> x.v # 0
      [] x.t = "str"  -> x.v # ""
      [] x.t = "list" -> x.v # <<>>
      [] x.t = "dict" -> DOMAIN x.v # {}

\* a or b
PyOr(a, b) == IF Truthy(a) THEN a ELSE b

\* dict.get(k), dict[k] = v, dict.setdefault(k, v), dict.pop(k, None) on the
\* function that holds a dict's items.
Get(d, k) == IF k \in DOMAIN d THEN d[k] ELSE PyNone
Put(d, k, v) == [x \in DOMAIN d \cup {k} |-> IF x = k THEN v ELSE d[x]]
SetDefault(d, k, v) == IF k \in DOMAIN d THEN d ELSE Put(d, k, v)
Pop(d, k) == [x \in DOMAIN d \ {k} |-> d[x]]
EmptyDict == [x \in {} |-> PyNone]

\* str(n) and int(s) for the numbers the model uses.
StrOfInt(n) ==
    CASE n = 0 -> "0"
      [] n = 256 -> "256"
      [] n = 512 -> "512"
      [] n = 1024 -> "1024"
      [] n = 2048 -> "2048"
IntOfStr(s) ==
    CASE s = "0" -> 0
      [] s = "256" -> 256
      [] s = "512" -> 512
      [] s = "1024" -> 1024
      [] s = "2048" -> 2048
PyStr(x) == IF x.t = "int" THEN S(StrOfInt(x.v)) ELSE x
PyInt(x) == IF x.t = "str" THEN I(IntOfStr(x.v)) ELSE x

Runs == 1..MaxRuns
DeploymentIds == {1, 2}

(***************************************************************************)
(* Task definition documents (ecs_worker.py).                              *)
(***************************************************************************)
\* Index of the first container named `name` in a list of containers, 0 if none.
GetContainer(containers, name) ==
    LET hits == {i \in DOMAIN containers : Get(containers[i].v, "name") = S(name)}
    IN IF hits = {} THEN 0 ELSE CHOOSE i \in hits : \A j \in hits : i <= j

\* The container name inferred from a task definition (PyNone if none).
ContainerNameFromTaskDefinition(td) ==
    LET cds == IF DOMAIN td # {} THEN Get(td, "containerDefinitions") ELSE PyNone
        list == IF cds.t = "list" THEN cds.v ELSE <<>>
    IN IF GetContainer(list, ECS_DEFAULT_CONTAINER_NAME) # 0
       THEN S(ECS_DEFAULT_CONTAINER_NAME)
       ELSE IF list # <<>> THEN Get(list[1].v, "name") ELSE PyNone

\* slugify(family, max_length=255, regex_pattern=r"[^a-zA-Z0-9-_]+") on the
\* families the model draws, which hold only characters the pattern keeps.
Slugify(family) == family

\* ECSWorker._prepare_task_definition for a configuration with no explicit
\* container_name, no env entry set to None and configure_cloudwatch_logs
\* off.  conf.task_definition is the template, conf.launch_type the request's
\* launchType.
WorkerPrepareTaskDefinition(conf) ==
    LET td0 == SetDefault(conf.task_definition, "containerDefinitions", L(<<>>))
        container_name == PyOr(ContainerNameFromTaskDefinition(td0),
                               S(ECS_DEFAULT_CONTAINER_NAME)).v
        found == GetContainer(td0["containerDefinitions"].v, container_name)
        cds0 == IF found = 0
                THEN Append(td0["containerDefinitions"].v,
                            D([x \in {"name"} |-> S(container_name)]))
                ELSE td0["containerDefinitions"].v
        ci == IF found = 0 THEN Len(cds0) ELSE found
        family == PyOr(Get(td0, "family"), S(ECS_DEFAULT_FAMILY))
        td1 == Put(td0, "family", S(Slugify(family.v)))
        cpu == PyOr(Get(td1, "cpu"), I(ECS_DEFAULT_CPU))
        memory == PyOr(Get(td1, "memory"), I(ECS_DEFAULT_MEMORY))
        launch_type == conf.launch_type
        fargate == launch_type = "FARGATE" \/ launch_type = "FARGATE_SPOT"
        \* FARGATE: task level cpu and memory, compatibility, network mode
        td2 == IF fargate
               THEN LET a == Put(Put(td1, "cpu", PyStr(cpu)), "memory", PyStr(memory))
                        b == SetDefault(a, "requiresCompatibilities", L(<<>>))
                        rc == b["requiresCompatibilities"].v
                        c == IF \E k \in DOMAIN rc : rc[k] = S("FARGATE")
                             THEN b
                             ELSE Put(b, "requiresCompatibilities",
                                      L(Append(rc, S("FARGATE"))))
                    IN SetDefault(c, "networkMode", S("awsvpc"))
               ELSE td1
        \* EC2: container level cpu and memory, as integers
        c0 == cds0[ci].v
        c1 == IF launch_type = "EC2"
              THEN LET a == SetDefault(SetDefault(c0, "cpu", cpu), "memory", memory)
                   IN Put(Put(a, "cpu", PyInt(a["cpu"])), "memory", PyInt(a["memory"]))
              ELSE c0
        cds1 == [cds0 EXCEPT ![ci] = D(c1)]
        td3 == Put(td2, "containerDefinitions", L(cds1))
        td4 == IF Truthy(Get(td3, "cpu")) THEN Put(td3, "cpu", PyStr(td3["cpu"])) ELSE td3
        td5 == IF Truthy(Get(td4, "memory"))
               THEN Put(td4, "memory", PyStr(td4["memory"])) ELSE td4
    IN td5

\* _set_aws_defaults: the defaults AWS sets after registration.
SetAwsDefaults(td) ==
    LET cds == Get(td, "containerDefinitions")
        list == IF cds.t = "list" THEN cds.v ELSE <<>>
        essential == \E i \in DOMAIN list : Truthy(Get(list[i].v, "essential"))
        list1 == IF ~essential /\ list # <<>>
                 THEN [list EXCEPT ![1] = D(SetDefault(list[1].v, "essential", B(TRUE)))]
                 ELSE list
        td1 == IF cds.t = "list" THEN Put(td, "containerDefinitions", L(list1)) ELSE td
    IN SetDefault(td1, "networkMode", S("bridge"))

\* _drop_empty_keys: a key is popped when its value is falsy; the value the
\* test and the recursion read is the one bound before the recursion.
RECURSIVE DropEmptyKeys(_)
DropEmptyKeys(d) ==
    LET kept == {k \in DOMAIN d : Truthy(d[k])}
        Sub(x) == IF x.t = "dict" THEN D(DropEmptyKeys(x.v)) ELSE x
    IN [k \in kept |->
          CASE d[k].t = "dict" -> D(DropEmptyKeys(d[k].v))
            [] d[k].t = "list" -> L([i \in DOMAIN d[k].v |-> Sub(d[k].v[i])])
            [] OTHER -> d[k]]

\* No field is popped.
PopNoField(td) == td

\* The fields that change on registration are popped.
PopPostRegistrationFields(td) ==
    [k \in DOMAIN td \ ECS_POST_REGISTRATION_FIELDS |-> td[k]]

Homogenize(td) == PopPostRegistrationFields(DropEmptyKeys(SetAwsDefaults(td)))

\* ECSWorker._task_definitions_equal on two task definitions (neither None).
TaskDefinitionsEqual(taskdef_1, taskdef_2) ==
    IF taskdef_1 = taskdef_2 THEN TRUE
    ELSE Homogenize(taskdef_1) = Homogenize(taskdef_2)

(***************************************************************************)
(* The ECS service as the worker sees it: register_task_definition stores  *)
(* the document under a new ARN; describe_task_definition returns it with  *)
(* the fields registration populates and the service's defaults.           *)
(***************************************************************************)
ServiceContainer(c) ==
    D(SetDefault(SetDefault(SetDefault(SetDefault(c,
        "cpu", I(0)), "environment", L(<<>>)), "mountPoints", L(<<>>)),
        "volumesFrom", L(<<>>)))

\* The document the service holds for `document` registered under `arn`.
ServiceDocument(document, arn) ==
    LET doc == SetAwsDefaults(document)
        cds == doc["containerDefinitions"].v
        a == Put(doc, "containerDefinitions",
                 L([i \in DOMAIN cds |-> ServiceContainer(cds[i].v)]))
        b == SetDefault(SetDefault(a, "volumes", L(<<>>)),
                        "placementConstraints", L(<<>>))
        rc == Get(b, "requiresCompatibilities")
    IN Put(Put(Put(Put(Put(Put(b,
         "taskDefinitionArn", I(arn)),
         "revision", I(arn)),
         "status", S("ACTIVE")),
         "compatibilities", IF rc.t = "list" THEN L(<<S("EC2")>> \o rc.v) ELSE L(<<S("EC2")>>)),
         "registeredAt", S("now")),
         "registeredBy", S("arn:aws:iam::user"))

ServiceDescribe(arn) == ServiceDocument(wRegistry[arn], arn)

(***************************************************************************)
(* ECSWorker.run.  The coroutine awaits once, for the session and client;  *)
(* from the cache lookup on it runs on the event loop without awaiting, so *)
(* one invocation at a time (wLoop) executes that part.                    *)
(***************************************************************************)
NewRun ==
    [pc |-> "new", key |-> 0, conf |-> [task_definition |-> EmptyDict, launch_type |-> ""],
     cached |-> 0, taskdef |-> EmptyDict, arn |-> 0,
     \* history of the invocation, read by the properties only
     cachedAtStart |-> 0, prev |-> 0, retrieved |-> "none",
     regDocs |-> <<>>, regArn |-> 0, stored |-> 0,
     launched |-> 0]

\* The default task definition template with the image filled in.
Template(image) ==
    [x \in {"containerDefinitions", "family"} |->
        IF x = "family" THEN S(ECS_DEFAULT_FAMILY)
        ELSE L(<<D([y \in {"image", "name"} |->
                      IF y = "image" THEN S(image) ELSE S(ECS_DEFAULT_CONTAINER_NAME)])>>)]

\* The job configurations a flow run is submitted with.
Configurations ==
    {[task_definition |-> Template("img1"), launch_type |-> "FARGATE"],
     [task_definition |-> Template("img2"), launch_type |-> "FARGATE"],
     [task_definition |-> Template("img1"), launch_type |-> "EC2"]}

\* A lookup under a key the cache never holds.
CacheGetWrongKey(cache, key) == IF <<"arn", key>> \in DOMAIN cache
                                THEN cache[<<"arn", key>>] ELSE 0

\* _TASK_DEFINITION_CACHE.get(key): the ARN, 0 for None.
CacheGet(cache, key) == IF <<"deployment", key>> \in DOMAIN cache
                        THEN cache[<<"deployment", key>>] ELSE 0
\* _TASK_DEFINITION_CACHE[key] = arn
CacheSet(cache, key, arn) ==
    [x \in DOMAIN cache \cup {<<"deployment", key>>} |->
        IF x = <<"deployment", key>> THEN arn ELSE cache[x]]
\* _TASK_DEFINITION_CACHE.pop(cached_task_definition_arn, None): the key
\* popped is the ARN, and the cache is keyed by deployment id.
CachePopArn(cache, arn) == [x \in DOMAIN cache \ {<<"arn", arn>>} |-> cache[x]]

\* A flow run is submitted: the coroutine starts and awaits the session.
WBegin(i) ==
    /\ wRun[i].pc = "new"
    /\ IF i = 1 THEN TRUE ELSE wRun[i - 1].pc # "new"
    /\ \E key \in DeploymentIds, c \in Configurations :
         wRun' = [wRun EXCEPT ![i].pc = "await", ![i].key = key, ![i].conf = c]
    /\ UNCHANGED <<wCache, wRegistry, wLoop, wOrder>>
    /\ UNCHANGED <<tvars, lvars, pvars, evars>>

\* Lines 349-354: the cache lookup and the preparation of the definition.
WResume(i) ==
    /\ wRun[i].pc = "await"
    /\ wLoop = 0
    /\ LET cached == CacheGet(wCache, wRun[i].key)
           td == WorkerPrepareTaskDefinition(wRun[i].conf)
       IN wRun' = [wRun EXCEPT ![i].pc = IF cached # 0 THEN "retrieve" ELSE "register",
                     ![i].cached = cached, ![i].taskdef = td,
                     ![i].cachedAtStart = cached,
                     ![i].prev = wOrder[wRun[i].key]]
    /\ wLoop' = i
    /\ UNCHANGED <<wCache, wRegistry, wOrder>>
    /\ UNCHANGED <<tvars, lvars, pvars, evars>>

\* Lines 356-372 and 382, describe_task_definition succeeding: the retrieved
\* definition is bound to task_definition and compared.
WRetrieveOk(i) ==
    /\ wRun[i].pc = "retrieve"
    /\ wLoop = i
    /\ LET td == ServiceDescribe(wRun[i].cached)
           cached == IF ~TaskDefinitionsEqual(td, td) THEN 0 ELSE wRun[i].cached
       IN wRun' = [wRun EXCEPT ![i].taskdef = td, ![i].cached = cached,
                     ![i].pc = IF cached = 0 THEN "register" ELSE "check",
                     ![i].arn = cached,
                     ![i].retrieved = "ok"]
    /\ UNCHANGED <<wCache, wRegistry, wLoop, wOrder>>
    /\ UNCHANGED <<tvars, lvars, pvars, evars>>

\* Lines 362-368, describe_task_definition raising.
WRetrieveFail(i) ==
    /\ wRun[i].pc = "retrieve"
    /\ wLoop = i
    /\ wCache' = CachePopArn(wCache, wRun[i].cached)
    /\ wRun' = [wRun EXCEPT ![i].cached = 0, ![i].pc = "register",
                  ![i].retrieved = "failed"]
    /\ UNCHANGED <<wRegistry, wLoop, wOrder>>
    /\ UNCHANGED <<tvars, lvars, pvars, evars>>

\* Lines 374-380, register_task_definition succeeding.
WRegisterOk(i) ==
    /\ wRun[i].pc = "register"
    /\ wLoop = i
    /\ wRegistry' = Append(wRegistry, wRun[i].taskdef)
    /\ wRun' = [wRun EXCEPT ![i].arn = Len(wRegistry) + 1, ![i].pc = "check",
                  ![i].regDocs = Append(@, wRun[i].taskdef),
                  ![i].regArn = Len(wRegistry) + 1]
    /\ UNCHANGED <<wCache, wLoop, wOrder>>
    /\ UNCHANGED <<tvars, lvars, pvars, evars>>

\* register_task_definition raising: the exception leaves run.
WRegisterFail(i) ==
    /\ wRun[i].pc = "register"
    /\ wLoop = i
    /\ wRun' = [wRun EXCEPT ![i].pc = "failed",
                  ![i].regDocs = Append(@, wRun[i].taskdef)]
    /\ wLoop' = 0
    /\ UNCHANGED <<wCache, wRegistry, wOrder>>
    /\ UNCHANGED <<tvars, lvars, pvars, evars>>

\* Lines 384-398: the compatibility check, then the cache update.
WCheck(i) ==
    /\ wRun[i].pc = "check"
    /\ wLoop = i
    /\ LET rc == Get(wRun[i].taskdef, "requiresCompatibilities")
           raises == /\ wRun[i].conf.launch_type # "EC2"
                     /\ \/ rc.t # "list"
                        \/ ~\E k \in DOMAIN rc.v : rc.v[k] = S("FARGATE")
       IN IF raises
          THEN /\ wRun' = [wRun EXCEPT ![i].pc = "failed"]
               /\ wLoop' = 0
               /\ UNCHANGED <<wCache, wOrder>>
          ELSE /\ wCache' = CacheSet(wCache, wRun[i].key, wRun[i].arn)
               /\ wRun' = [wRun EXCEPT ![i].pc = "launch", ![i].stored = wRun[i].arn]
               /\ wOrder' = [wOrder EXCEPT ![wRun[i].key] = i]
               /\ UNCHANGED wLoop
    /\ UNCHANGED <<wRegistry>>
    /\ UNCHANGED <<tvars, lvars, pvars, evars>>

\* Lines 401-433: the request is prepared and run_task returns a task.
WLaunchOk(i) ==
    /\ wRun[i].pc = "launch"
    /\ wLoop = i
    /\ wRun' = [wRun EXCEPT ![i].pc = "done", ![i].launched = wRun[i].arn]
    /\ wLoop' = 0
    /\ UNCHANGED <<wCache, wRegistry, wOrder>>
    /\ UNCHANGED <<tvars, lvars, pvars, evars>>

\* The VPC lookup of _prepare_task_run_request or run_task raises.
WLaunchFail(i) ==
    /\ wRun[i].pc = "launch"
    /\ wLoop = i
    /\ wRun' = [wRun EXCEPT ![i].pc = "failed"]
    /\ wLoop' = 0
    /\ UNCHANGED <<wCache, wRegistry, wOrder>>
    /\ UNCHANGED <<tvars, lvars, pvars, evars>>

WInit ==
    /\ wCache = [x \in {} |-> 0]
    /\ wRegistry = <<>>
    /\ wRun = [i \in Runs |-> NewRun]
    /\ wLoop = 0
    /\ wOrder = [k \in DeploymentIds |-> 0]

WNext ==
    \E i \in Runs :
        \/ WBegin(i)
        \/ WResume(i)
        \/ WRetrieveOk(i)
        \/ WRetrieveFail(i)
        \/ WRegisterOk(i)
        \/ WRegisterFail(i)
        \/ WCheck(i)
        \/ WLaunchOk(i)
        \/ WLaunchFail(i)


(***************************************************************************)
(* Properties of ECSWorker.run (checked under SpecWorker).                 *)
(***************************************************************************)
\* The definition invocation i prepared for its run.
Desired(i) == WorkerPrepareTaskDefinition(wRun[i].conf)

\* C2: a completed run that found a cached ARN, retrieved its definition and
\* got one that is not equal (under the equality normalization) to the
\* definition it prepared has made exactly one register_task_definition call,
\* with the prepared definition, has launched with the newly registered ARN
\* and has stored that ARN in the cache.
C2_InvalidationRegistersOnce ==
    \A i \in Runs :
        (/\ wRun[i].pc = "done"
         /\ wRun[i].cachedAtStart # 0
         /\ wRun[i].retrieved = "ok"
         /\ ~TaskDefinitionsEqual(ServiceDescribe(wRun[i].cachedAtStart), Desired(i)))
        => /\ wRun[i].regDocs = <<Desired(i)>>
           /\ wRun[i].regArn # 0
           /\ wRun[i].launched = wRun[i].regArn
           /\ wRun[i].stored = wRun[i].regArn

\* C3: every run_task call carries an ARN whose registered document equals
\* the definition that invocation prepared.
C3_LaunchedArnMatchesDesired ==
    \A i \in Runs :
        wRun[i].launched # 0
        => TaskDefinitionsEqual(ServiceDescribe(wRun[i].launched), Desired(i))

\* C4 as stated: an invocation that follows one for the same key with the
\* same prepared definition makes no register_task_definition call and
\* launches with the ARN the earlier one cached.
C4_SecondRunNeverRegisters ==
    \A i \in Runs :
        (/\ wRun[i].prev # 0
         /\ Desired(i) = Desired(wRun[i].prev))
        => /\ wRun[i].regDocs = <<>>
           /\ wRun[i].launched \in {0, wRun[wRun[i].prev].stored}

\* C4 amended: the same, provided describe_task_definition does not fail for
\* the cached ARN.
C4_SecondRunReusesWhenRetrieved ==
    \A i \in Runs :
        (/\ wRun[i].prev # 0
         /\ Desired(i) = Desired(wRun[i].prev)
         /\ wRun[i].retrieved # "failed")
        => /\ wRun[i].regDocs = <<>>
           /\ wRun[i].launched \in {0, wRun[wRun[i].prev].stored}

C4_Witness ==
    \E i \in Runs :
        /\ wRun[i].pc = "done"
        /\ wRun[i].prev # 0
        /\ Desired(i) = Desired(wRun[i].prev)
        /\ wRun[i].retrieved = "ok"
        /\ wRun[i].regDocs = <<>>
        /\ wRun[i].launched = wRun[wRun[i].prev].stored

\* C5: when describe_task_definition has failed for the cached ARN and the
\* run is about to register, the cache holds no entry for the deployment key
\* and the definition to register is the prepared one.
C5_EvictedBeforeRegistration ==
    \A i \in Runs :
        (wRun[i].retrieved = "failed" /\ wRun[i].pc = "register")
        => /\ CacheGet(wCache, wRun[i].key) = 0
           /\ wRun[i].taskdef = Desired(i)

(***************************************************************************)
(* ECSTask.run (ecs.py): the task run is created, _wait_for_task_start     *)
(* watches it until RUNNING, the identifier is reported, then              *)
(* _wait_for_task_finish watches it until STOPPED and the result is built. *)
(* Time passes in describe_tasks and in time.sleep; it is tracked while a  *)
(* timeout reads it (the wait for RUNNING).                                *)
(***************************************************************************)
Statuses == {"PROVISIONING", "PENDING", "RUNNING", "STOPPED"}
StopCodes == {PyNone, S("TaskFailedToStart"), S("EssentialContainerExited")}
StoppedReasons == {PyNone, S("killed")}
ExitCodes == {PyNone, I(0), I(1)}

\* A task description: lastStatus, stopCode, stoppedReason and the exitCode
\* of the 'prefect' container.
TaskDescription(status, code, reason, exit) ==
    [lastStatus |-> status, stopCode |-> code, stoppedReason |-> reason, exitCode |-> exit]
NoTask == TaskDescription("UNKNOWN", PyNone, PyNone, PyNone)
NoError == [kind |-> "none", code |-> PyNone, reason |-> PyNone]
NewHist == [startPolls |-> 0, finishPolls |-> 0, sawRunning |-> FALSE,
            reported |-> FALSE, late |-> 0, elapsed |-> 0, streamed |-> FALSE,
            drains |-> 0, polledAfterStopped |-> FALSE, ran |-> FALSE]

At(phase, at) == [phase |-> phase, at |-> at]

\* until_status and timeout as the two waits pass them to _watch_task_run.
UntilStatus(phase) == IF phase = "start" THEN S("RUNNING") ELSE PyNone
WatchTimeout(phase) == IF phase = "start" THEN I(tConf.timeout) ELSE PyNone

\* `timeout is not None and elapsed_time >= timeout`
TimedOutAtTimeout(timeout, elapsed) == timeout.t # "none" /\ elapsed >= timeout.v

\* `timeout is not None and elapsed_time > timeout`
TimedOut(timeout, elapsed) == timeout.t # "none" /\ elapsed > timeout.v

\* type(code, (RuntimeError,), {})(reason): type() takes a str for the name
\* and raises TypeError for anything else.
DynamicError(code, reason) ==
    IF code.t = "str"
    THEN [kind |-> "stopped", code |-> code, reason |-> reason]
    ELSE [kind |-> "TypeError", code |-> PyNone, reason |-> PyNone]

\* run_task returns and the identifier is reported at once.
TRunTaskOkReporting ==
    /\ tPc = At("create", "init")
    /\ tRemote' = TaskDescription("PROVISIONING", PyNone, PyNone, PyNone)
    /\ tPc' = At("start", "loop")
    /\ tStatus' = "UNKNOWN"
    /\ tLast' = "UNKNOWN"
    /\ tT0' = tClock
    /\ tHist' = [tHist EXCEPT !.reported = TRUE]
    /\ UNCHANGED <<tTask, tClock, tConf, tError, tResult, wvars, lvars, pvars, evars>>

\* _create_task_and_wait_for_start up to run_task, which returns a task.
TRunTaskOk ==
    /\ tPc = At("create", "init")
    /\ tRemote' = TaskDescription("PROVISIONING", PyNone, PyNone, PyNone)
    /\ tPc' = At("start", "loop")
    /\ tStatus' = "UNKNOWN"
    /\ tLast' = "UNKNOWN"
    /\ tT0' = tClock
    /\ UNCHANGED <<tTask, tClock, tConf, tError, tResult, tHist, wvars, lvars, pvars, evars>>

\* The preparation or run_task raises.
TRunTaskFail ==
    /\ tPc = At("create", "init")
    /\ tPc' = At("end", "failed")
    /\ tError' = [kind |-> "launch", code |-> PyNone, reason |-> PyNone]
    /\ UNCHANGED <<tRemote, tTask, tStatus, tLast, tClock, tT0, tConf, tResult, tHist, wvars, lvars, pvars, evars>>

\* The service moves the task on.
TRemoteStep ==
    /\ tPc.phase \in {"start", "finish"}
    /\ \/ /\ tRemote.lastStatus = "PROVISIONING"
          /\ tRemote' = [tRemote EXCEPT !.lastStatus = "PENDING"]
          /\ UNCHANGED tHist
       \/ /\ tRemote.lastStatus = "PENDING"
          /\ tRemote' = [tRemote EXCEPT !.lastStatus = "RUNNING"]
          /\ tHist' = [tHist EXCEPT !.ran = TRUE]
       \/ /\ tRemote.lastStatus \in {"PROVISIONING", "PENDING", "RUNNING"}
          /\ \E code \in StopCodes, reason \in StoppedReasons, exit \in ExitCodes :
                tRemote' = TaskDescription("STOPPED", code, reason, exit)
          /\ UNCHANGED tHist
    /\ UNCHANGED <<tPc, tTask, tStatus, tLast, tClock, tT0, tConf, tError, tResult, wvars, lvars, pvars, evars>>

\* _watch_task_run, lines 390-399: the loop condition holds, describe_tasks
\* is called and the task is yielded.
TWatchPoll ==
    /\ tPc.at = "loop"
    /\ S(tStatus) # UntilStatus(tPc.phase)
    /\ \E d \in 0..MaxLatency :
         LET now == IF tPc.phase = "start" THEN tClock + d ELSE tClock
         IN /\ tClock' = now
            /\ tHist' = IF tPc.phase = "start"
                        THEN [tHist EXCEPT !.startPolls = @ + 1,
                                !.sawRunning = @ \/ tRemote.lastStatus = "RUNNING",
                                !.late = IF now - tT0 > tConf.timeout THEN @ + 1 ELSE @]
                        ELSE [tHist EXCEPT !.finishPolls = IF @ < 2 THEN @ + 1 ELSE @,
                                !.drains = 0,
                                !.polledAfterStopped = @ \/ tStatus = "STOPPED"]
    /\ tTask' = tRemote
    /\ tStatus' = tRemote.lastStatus
    /\ tPc' = At(tPc.phase, "yield")
    /\ UNCHANGED <<tRemote, tLast, tT0, tConf, tError, tResult, wvars, lvars, pvars, evars>>

\* _watch_task_run, line 390: status is until_status; the generator ends and
\* _wait_for_task_start returns the task.
TWatchReturn ==
    /\ tPc.at = "loop"
    /\ S(tStatus) = UntilStatus(tPc.phase)
    /\ tPc' = At(tPc.phase, "done")
    /\ UNCHANGED <<tRemote, tTask, tStatus, tLast, tClock, tT0, tConf, tError, tResult, tHist, wvars, lvars, pvars, evars>>

\* _wait_for_task_start, lines 426-433: the body run on each yielded task.
TWaitStartBody ==
    /\ tPc = At("start", "yield")
    /\ IF tTask.lastStatus = "STOPPED"
       THEN /\ tError' = DynamicError(tTask.stopCode, tTask.stoppedReason)
            /\ tPc' = At("end", "failed")
       ELSE /\ tPc' = At("start", "after")
            /\ UNCHANGED tError
    /\ UNCHANGED <<tRemote, tTask, tStatus, tLast, tClock, tT0, tConf, tResult, tHist, wvars, lvars, pvars, evars>>

PREFECT_ECS_CONTAINER_NAME == "prefect"

\* get_prefect_container: the first container named 'prefect', None if none.
GetPrefectContainer(containers) ==
    LET i == GetContainer(containers, PREFECT_ECS_CONTAINER_NAME)
    IN  IF i = 0 THEN PyNone ELSE containers[i]

\* The task definitions _wait_for_task_finish is given: without a 'prefect'
\* container, with one that has no logConfiguration, an empty one, one with
\* another driver, and one that logs to CloudWatch.
AwsLogsConfiguration ==
    D([logDriver |-> S("awslogs"),
       options |-> D([x \in {"awslogs-group", "awslogs-stream-prefix"} |-> S("prefect")])])
WaitTaskDefinitions ==
    { [containerDefinitions |->
          L(<<D([name |-> S("sidecar"), logConfiguration |-> AwsLogsConfiguration])>>)],
      [containerDefinitions |-> L(<<D([name |-> S("prefect")])>>)],
      [containerDefinitions |->
          L(<<D([name |-> S("prefect"), logConfiguration |-> D(EmptyDict)])>>)],
      [containerDefinitions |->
          L(<<D([name |-> S("prefect"),
                 logConfiguration |-> D([logDriver |-> S("splunk")])])>>)],
      [containerDefinitions |->
          L(<<D([name |-> S("prefect"), logConfiguration |-> AwsLogsConfiguration])>>)] }

\* can_stream_output, with every driver taken for a CloudWatch one.
CanStreamOutputAnyDriver(stream_output, task_definition) ==
    IF ~stream_output THEN FALSE
    ELSE LET container_def == GetPrefectContainer(task_definition["containerDefinitions"].v)
         IN  IF ~Truthy(container_def) THEN FALSE
             ELSE Truthy(Get(container_def.v, "logConfiguration"))

\* _wait_for_task_finish, lines 452-478: can_stream_output.
CanStreamOutput(stream_output, task_definition) ==
    IF ~stream_output THEN FALSE
    ELSE LET container_def == GetPrefectContainer(task_definition["containerDefinitions"].v)
         IN  IF ~Truthy(container_def) THEN FALSE
             ELSE IF ~Truthy(Get(container_def.v, "logConfiguration")) THEN FALSE
             ELSE IF ~(Get(container_def.v["logConfiguration"].v, "logDriver") = S("awslogs"))
                  THEN FALSE
             ELSE TRUE

\* _wait_for_task_finish, lines 494-504: the body run on each yielded task;
\* _stream_available_logs issues at least one get_log_events request.
TWaitFinishBody ==
    /\ tPc = At("finish", "yield")
    /\ tPc' = At("finish", "after")
    /\ LET streams == /\ tConf.stream_output
                       /\ CanStreamOutput(tConf.stream_output, tConf.task_definition)
       IN  tHist' = [tHist EXCEPT !.streamed = @ \/ streams,
                                  !.drains = IF streams /\ @ < 2 THEN @ + 1 ELSE @]
    /\ UNCHANGED <<tRemote, tTask, tStatus, tLast, tClock, tT0, tConf, tError, tResult, wvars, lvars, pvars, evars>>

\* The watch goes on after a STOPPED status.
StatusIsFinalNever(status) == FALSE

\* _watch_task_run, lines 400-402: "no point in continuing if the status is
\* final".
StatusIsFinal(status) == status = "STOPPED"

\* _watch_task_run, lines 401-412: after the yield.
TWatchAfter ==
    /\ tPc.at = "after"
    /\ IF StatusIsFinal(tStatus)
       THEN \* break: the generator ends, the wait returns the task
            /\ tPc' = At(tPc.phase, "done")
            /\ UNCHANGED <<tLast, tClock, tError, tHist>>
       ELSE LET elapsed_time == tClock - tT0
            IN /\ tLast' = tStatus
               /\ tHist' = [tHist EXCEPT !.elapsed = elapsed_time]
               /\ IF TimedOut(WatchTimeout(tPc.phase), elapsed_time)
                  THEN /\ tError' = [kind |-> "timeout", code |-> PyNone, reason |-> PyNone]
                       /\ tPc' = At("end", "failed")
                       /\ UNCHANGED tClock
                  ELSE \* time.sleep(self.task_watch_poll_interval)
                       /\ tClock' = IF tPc.phase = "start"
                                    THEN tClock + tConf.interval ELSE tClock
                       /\ tPc' = At(tPc.phase, "loop")
                       /\ UNCHANGED tError
    /\ UNCHANGED <<tRemote, tTask, tStatus, tT0, tConf, tResult, wvars, lvars, pvars, evars>>

\* ECSTask.run, lines 160-180: _create_task_and_wait_for_start has returned;
\* task_status.started(task_arn) is called and the wait for STOPPED begins
\* with current_status="RUNNING".
TStarted ==
    /\ tPc = At("start", "done")
    /\ tHist' = [tHist EXCEPT !.reported = TRUE]
    /\ tStatus' = "RUNNING"
    /\ tLast' = "RUNNING"
    /\ tT0' = tClock
    /\ tPc' = At("finish", "loop")
    /\ UNCHANGED <<tRemote, tTask, tClock, tConf, tError, tResult, wvars, lvars, pvars, evars>>

\* status_code or -1
StatusCode(status_code) == PyOr(status_code, I(-1))

\* _watch_task_and_get_result, lines 270-283.
TReport ==
    /\ tPc = At("finish", "done")
    /\ tResult' = StatusCode(tTask.exitCode)
    /\ tPc' = At("end", "done")
    /\ UNCHANGED <<tRemote, tTask, tStatus, tLast, tClock, tT0, tConf, tError, tHist, wvars, lvars, pvars, evars>>

TOff ==
    /\ tPc = At("off", "off")
    /\ tRemote = NoTask
    /\ tTask = NoTask
    /\ tStatus = "UNKNOWN"
    /\ tLast = "UNKNOWN"
    /\ tClock = 0
    /\ tT0 = 0
    /\ tConf = [timeout |-> 0, interval |-> 1, stream_output |-> FALSE,
                task_definition |-> [containerDefinitions |-> L(<<>>)]]
    /\ tError = NoError
    /\ tResult = PyNone
    /\ tHist = NewHist

WOff ==
    /\ wCache = [x \in {} |-> 0]
    /\ wRegistry = <<>>
    /\ wRun = [i \in Runs |-> NewRun]
    /\ wLoop = 0
    /\ wOrder = [k \in DeploymentIds |-> 0]

TInit ==
    /\ tPc = At("create", "init")
    /\ tRemote = NoTask
    /\ tTask = NoTask
    /\ tStatus = "UNKNOWN"
    /\ tLast = "UNKNOWN"
    /\ tClock = 0
    /\ tT0 = 0
    /\ tConf \in [timeout : 0..MaxTimeout, interval : 1..MaxInterval,
                   stream_output : BOOLEAN, task_definition : WaitTaskDefinitions]
    /\ tError = NoError
    /\ tResult = PyNone
    /\ tHist = NewHist

\* The steps of the run itself (all but the service's).
TProgram ==
    \/ TRunTaskOk
    \/ TRunTaskFail
    \/ TWatchPoll
    \/ TWatchReturn
    \/ TWaitStartBody
    \/ TWaitFinishBody
    \/ TWatchAfter
    \/ TStarted
    \/ TReport

TNext == TProgram \/ TRemoteStep

(***************************************************************************)
(* Properties of ECSTask.run (checked under SpecTask and SpecTaskFair).    *)
(***************************************************************************)
\* C1: the returned status_code is the 'prefect' container's exitCode
\* whenever one is present (0 included), and is -1 only when it is absent.
C1_StatusCodeIsExitCode ==
    tPc = At("end", "done")
    => /\ tTask.exitCode.t = "int" => tResult = tTask.exitCode
       /\ tResult = I(-1) => tTask.exitCode = PyNone

\* C6 as stated: the identifier has been reported (task_status.started)
\* before the first status poll of the wait for RUNNING.
C6_ReportedBeforeFirstStartPoll ==
    tHist.startPolls >= 1 => tHist.reported

\* C6 amended: the identifier is reported only once the wait for RUNNING has
\* returned (a poll returned RUNNING), never during that wait nor when it
\* fails, and before the first status poll of the wait for STOPPED.
C6_ReportedAfterStartWait ==
    /\ tPc.phase \in {"create", "start"} => ~tHist.reported
    /\ tHist.reported => tHist.sawRunning
    /\ tError # NoError => ~tHist.reported
    /\ tHist.finishPolls >= 1 => tHist.reported

C6_Witness ==
    /\ tHist.reported
    /\ tHist.startPolls >= 1
    /\ tHist.finishPolls = 0
    /\ tPc = At("finish", "loop")

\* C7: once a poll of the wait for RUNNING has returned RUNNING, the run
\* raises no error: the wait returns the task.
C7_NoTimeoutOnceRunning ==
    tHist.sawRunning => tError = NoError

\* C8: the timeout error is raised only with a measured elapsed time above
\* the timeout; at most one poll of the wait for RUNNING completes after the
\* timeout has elapsed, and when it reports neither RUNNING nor STOPPED the
\* wait raises without polling again.
C8_Safety ==
    /\ tError.kind = "timeout"
       => /\ tHist.elapsed > tConf.timeout
          /\ tHist.late = 1
    /\ tHist.late <= 1
    /\ (/\ tHist.late = 1
        /\ tTask.lastStatus \notin {"RUNNING", "STOPPED"})
       => \/ tPc \in {At("start", "yield"), At("start", "after")}
          \/ tError.kind = "timeout"

\* C8: a wait for RUNNING whose polls never report RUNNING or STOPPED
\* eventually raises the timeout error.
C8_TimeoutWhenNeverRunning ==
    /\ []C8_Safety
    /\ (tPc = At("start", "loop") /\ tHist.startPolls = 0)
         ~> (tError.kind = "timeout" \/ tTask.lastStatus \in {"RUNNING", "STOPPED"})

C8_Witness ==
    /\ tError.kind = "timeout"
    /\ tHist.startPolls >= 2
    /\ ~tHist.sawRunning
    /\ tTask.lastStatus \in {"PROVISIONING", "PENDING"}

\* C9: when a poll of the wait for RUNNING returned STOPPED, the wait has
\* failed with the stopped-before-running error that carries the stopCode and
\* the stoppedReason of that description.
C9_StoppedErrorCarriesCodeAndReason ==
    (tPc = At("end", "failed") /\ tTask.lastStatus = "STOPPED")
    => /\ tError.kind = "stopped"
       /\ tError.code = tTask.stopCode
       /\ tError.reason = tTask.stoppedReason

\* C11: when stream_output is off, or the task definition has no 'prefect'
\* container, or that container has no logConfiguration, or its logDriver
\* is not 'awslogs', the wait for STOPPED issues no get_log_events request,
\* raises nothing, and returns only with the STOPPED description the service
\* holds.
C11_NoStreamingWithoutAwsLogs ==
    LET containers == tConf.task_definition["containerDefinitions"].v
        prefect == {i \in DOMAIN containers : containers[i].v["name"] = S("prefect")}
        unavailable ==
            \/ ~tConf.stream_output
            \/ prefect = {}
            \/ \E i \in prefect :
                  /\ \A j \in prefect : i <= j
                  /\ \/ "logConfiguration" \notin DOMAIN containers[i].v
                     \/ "logDriver" \notin DOMAIN containers[i].v["logConfiguration"].v
                     \/ containers[i].v["logConfiguration"].v["logDriver"] # S("awslogs")
    IN  unavailable =>
          /\ ~tHist.streamed
          /\ tPc.phase = "finish" => tError = NoError
          /\ tHist.finishPolls >= 1 => tError = NoError
          /\ tPc = At("finish", "done") =>
                (tTask.lastStatus = "STOPPED" /\ tTask = tRemote)

\* A wait that polled more than once and returned although the 'prefect'
\* container logs with another driver while stream_output is on.
C11_Witness ==
    /\ tPc = At("finish", "done")
    /\ tHist.finishPolls >= 2
    /\ tConf.stream_output
    /\ \E i \in DOMAIN tConf.task_definition["containerDefinitions"].v :
          LET c == tConf.task_definition["containerDefinitions"].v[i].v
          IN  /\ c["name"] = S("prefect")
              /\ "logConfiguration" \in DOMAIN c
              /\ Get(c["logConfiguration"].v, "logDriver") = S("splunk")
    /\ ~tHist.streamed

\* C24: while the wait for STOPPED streams, exactly one drain of the logs
\* runs after each describe_tasks poll and before the next one, the poll
\* that returns STOPPED included (the wait returns only after that drain),
\* and no poll is made after the one that returned STOPPED.
C24_OneDrainPerPoll ==
    (tConf.stream_output /\ CanStreamOutput(tConf.stream_output, tConf.task_definition)) =>
      /\ tPc = At("finish", "yield") => tHist.drains = 0
      /\ tPc = At("finish", "after") => tHist.drains = 1
      /\ (tPc = At("finish", "loop") /\ tHist.finishPolls >= 1) => tHist.drains = 1
      /\ tPc \in {At("finish", "done"), At("end", "done")} =>
            (tHist.drains = 1 /\ tTask.lastStatus = "STOPPED")
      /\ ~tHist.polledAfterStopped
      /\ tPc = At("finish", "loop") => tStatus # "STOPPED"

\* A streaming wait that polled at least twice has returned after the drain
\* that followed the STOPPED poll.
C24_Witness ==
    /\ tConf.stream_output
    /\ CanStreamOutput(tConf.stream_output, tConf.task_definition)
    /\ tPc = At("finish", "done")
    /\ tHist.finishPolls >= 2
    /\ tTask.lastStatus = "STOPPED"
    /\ tHist.drains = 1

\* C29: the wait for RUNNING fails with the stopped-before-running error
\* only for a task that never was RUNNING: whenever the task was RUNNING
\* before it became STOPPED, whatever the timing of the polls, the wait does
\* not fail with that error.
C29_StopErrorOnlyIfNeverRan ==
    tError.kind = "stopped" => ~tHist.ran

(***************************************************************************)
(* ECSTask._stream_available_logs and the CloudWatch log stream it reads.  *)
(* An event is <<timestamp, id>>; the id is the order of ingestion, and    *)
(* the stream is ordered by timestamp, then by ingestion.                  *)
(***************************************************************************)
Timestamps == 1..MaxTs

NoToken == S("NO-TOKEN")

\* A pagination token of the service: the position it has read up to.
Token(pos) == [t |-> "token", v |-> pos]

StreamHead == Token(<<0, 0>>)

Before(e, f) == e[1] < f[1] \/ (e[1] = f[1] /\ e[2] < f[2])

\* The events in the order of the stream: the i-th one has i - 1 before it.
InOrder(events) ==
    [i \in 1..Cardinality(events) |->
        CHOOSE e \in events : Cardinality({f \in events : Before(f, e)}) = i - 1]

\* The events a request asks for: from `startTime` on, after `nextToken`.
Requested(request) ==
    { e \in lStream :
        /\ "startTime" \in DOMAIN request => e[1] >= request["startTime"].v
        /\ "nextToken" \in DOMAIN request => Before(request["nextToken"].v, e) }

\* get_log_events: one page of the requested events and the token to go on
\* from it; the token sent comes back when the page is empty.  A request
\* without token reads its page from either end of the stream.
Page(request, fromHead) ==
    LET all == InOrder(Requested(request))
        n   == Len(all)
    IN  IF n <= PageSize THEN all
        ELSE IF fromHead \/ "nextToken" \in DOMAIN request
             THEN SubSeq(all, 1, PageSize)
             ELSE SubSeq(all, n - PageSize + 1, n)

GetLogEvents(request, fromHead) ==
    LET events == Page(request, fromHead)
    IN  [events |-> events,
         nextForwardToken |->
            IF events # <<>> THEN Token(events[Len(events)])
            ELSE IF "nextToken" \in DOMAIN request THEN request["nextToken"]
            ELSE StreamHead]

\* The service ingests an event.
LPutLogEvent(ts) ==
    /\ Cardinality(lStream) < MaxEvents
    /\ lStream' = lStream \cup {<<ts, Cardinality(lStream) + 1>>}
    /\ UNCHANGED <<lPc, lLastTs, lLastToken, lNextToken, lDrains, lEmitted, lReturned,
                   lRequests, lAtCall>>
    /\ UNCHANGED <<wvars, tvars, pvars, evars>>

\* The caller (_wait_for_task_finish) calls with the timestamp the previous
\* call returned.
LCall ==
    /\ lPc = "idle"
    /\ lDrains < MaxDrains
    /\ lPc' = "loop"
    /\ lLastToken' = NoToken
    /\ lNextToken' = PyNone
    /\ lRequests' = <<>>
    /\ lAtCall' = lStream
    /\ UNCHANGED <<lStream, lLastTs, lDrains, lEmitted, lReturned>>
    /\ UNCHANGED <<wvars, tvars, pvars, evars>>

StartTimeNoBump(last_log_timestamp) == I(last_log_timestamp.v)

StartTime(last_log_timestamp) == I(last_log_timestamp.v + 1)

\* No request carries a token.
LogRequestWithoutToken(last_log_stream_token, last_log_timestamp) ==
    IF last_log_timestamp # PyNone
    THEN Put(EmptyDict, "startTime", StartTime(last_log_timestamp))
    ELSE EmptyDict

\* lines 530-540: the request of one turn of the loop.
LogRequest(last_log_stream_token, last_log_timestamp) ==
    LET r1 == IF last_log_stream_token # PyNone
              THEN Put(EmptyDict, "nextToken", last_log_stream_token)
              ELSE EmptyDict
    IN  IF last_log_timestamp # PyNone
        THEN Put(r1, "startTime", StartTime(last_log_timestamp))
        ELSE r1

RECURSIVE LastTimestampAfter(_, _)
LastTimestampAfter(log_events, last_log_timestamp) ==
    IF log_events = <<>> THEN last_log_timestamp
    ELSE LET ts == Head(log_events)[1]
         IN  LastTimestampAfter(Tail(log_events),
                IF last_log_timestamp = PyNone \/ ts > last_log_timestamp.v
                THEN I(ts) ELSE last_log_timestamp)

Printed(log_events, call) ==
    [k \in 1..Len(log_events) |->
        [call |-> call, ts |-> log_events[k][1], id |-> log_events[k][2]]]

\* One turn of the loop: request a page, print it, move the cursor.
LPage ==
    /\ lPc = "loop"
    /\ lLastToken # lNextToken
    /\ \E fromHead \in BOOLEAN :
         \E response \in {GetLogEvents(LogRequest(lNextToken, lLastTs), fromHead)} :
             /\ lLastToken' = lNextToken
             /\ lRequests' = Append(lRequests,
                                    [sent |-> Get(LogRequest(lNextToken, lLastTs), "nextToken"),
                                     returned |-> response.nextForwardToken])
             /\ lEmitted' = lEmitted \o Printed(response.events, lDrains + 1)
             /\ lLastTs' = LastTimestampAfter(response.events, lLastTs)
             /\ lNextToken' = response.nextForwardToken
    /\ UNCHANGED <<lStream, lPc, lDrains, lReturned, lAtCall>>
    /\ UNCHANGED <<wvars, tvars, pvars, evars>>

LReturn ==
    /\ lPc = "loop"
    /\ lLastToken = lNextToken
    /\ lPc' = "idle"
    /\ lDrains' = lDrains + 1
    /\ lReturned' = Append(lReturned, lLastTs)
    /\ UNCHANGED <<lStream, lLastTs, lLastToken, lNextToken, lEmitted, lRequests, lAtCall>>
    /\ UNCHANGED <<wvars, tvars, pvars, evars>>

LOff ==
    /\ lStream = {}
    /\ lPc = "off"
    /\ lLastTs = PyNone
    /\ lLastToken = PyNone
    /\ lNextToken = PyNone
    /\ lDrains = 0
    /\ lEmitted = <<>>
    /\ lReturned = <<>>
    /\ lRequests = <<>>
    /\ lAtCall = {}

LInit ==
    /\ lStream = {}
    /\ lPc = "idle"
    /\ lLastTs = PyNone
    /\ lLastToken = PyNone
    /\ lNextToken = PyNone
    /\ lDrains = 0
    /\ lEmitted = <<>>
    /\ lReturned = <<>>
    /\ lRequests = <<>>
    /\ lAtCall = {}

LNext ==
    \/ \E ts \in Timestamps : LPutLogEvent(ts)
    \/ LCall
    \/ LPage
    \/ LReturn

(***************************************************************************)
(* Properties of _stream_available_logs.                                   *)
(***************************************************************************)
\* C10: the timestamp returned never decreases from one call to the next,
\* every event a later call prints has a timestamp strictly greater than
\* all those an earlier call printed, and no event is printed twice.
C10_LogCursorMonotone ==
    /\ \A m, n \in DOMAIN lReturned :
         (m < n /\ lReturned[m] # PyNone) =>
            /\ lReturned[n] # PyNone
            /\ lReturned[n].v >= lReturned[m].v
    /\ \A a, b \in DOMAIN lEmitted :
         lEmitted[a].call < lEmitted[b].call => lEmitted[a].ts < lEmitted[b].ts
    /\ \A a, b \in DOMAIN lEmitted :
         a # b => lEmitted[a].id # lEmitted[b].id

\* Two calls that both printed, the earlier one over more than one page,
\* with the later one returning a greater timestamp.
C10_Witness ==
    /\ Len(lReturned) >= 2
    /\ lReturned[1] # PyNone
    /\ lReturned[2].v > lReturned[1].v
    /\ \E a, b \in DOMAIN lEmitted :
         /\ a # b
         /\ lEmitted[a].call = 1
         /\ lEmitted[b].call = 1
    /\ \E c \in DOMAIN lEmitted : lEmitted[c].call = 2

\* The token protocol of one call, on the requests made so far.
C25_Safety ==
    /\ lRequests # <<>> => lRequests[1].sent = PyNone
    /\ \A k \in DOMAIN lRequests :
         /\ k > 1 => lRequests[k].sent = lRequests[k - 1].returned
         /\ k < Len(lRequests) => lRequests[k].returned # lRequests[k].sent
    /\ (lPc = "idle" /\ lDrains >= 1) =>
         /\ lRequests # <<>>
         /\ lRequests[Len(lRequests)].returned = lRequests[Len(lRequests)].sent

\* C25: within one call of _stream_available_logs the first request has no
\* token, each later request has the token the previous response returned,
\* no request follows a response that returned the token it was sent, the
\* call returns only after such a response, and every call returns once the
\* service answers with the token it was sent.
C25_TokenProtocol ==
    /\ []C25_Safety
    /\ (lPc = "loop") ~> (lPc = "idle")

\* A call that returned after three requests or more.
C25_Witness ==
    /\ lPc = "idle"
    /\ lDrains >= 1
    /\ Len(lRequests) >= 3
    /\ lRequests[2].sent # lRequests[3].sent

\* C30: once a drain has returned, every event that was in the stream when
\* that drain began has been printed exactly once, by it or by an earlier
\* drain, whatever its timestamp.
C30_NoOutputLost ==
    (lPc = "idle" /\ lDrains >= 1) =>
      \A e \in lAtCall :
        Cardinality({k \in DOMAIN lEmitted : lEmitted[k].id = e[2]}) = 1

(***************************************************************************)
(* Preparation and launch: ECSTask._create_task_and_wait_for_start         *)
(* (ecs.py) and one ECSWorker.run on a cold cache (ecs_worker.py), from    *)
(* the configuration to the run_task call, with every call made to the     *)
(* service recorded in pCalls.                                             *)
(***************************************************************************)
LaunchTypes == {S("FARGATE"), S("FARGATE_SPOT"), S("EC2"), S("EXTERNAL")}

\* Task definition templates: empty, with task level cpu and memory, with a
\* network mode, with a 'prefect' container that declares cpu and memory,
\* with an execution role and a compatibility.
Templates ==
    { EmptyDict,
      [cpu |-> I(256), memory |-> S("512")],
      [x \in {"networkMode"} |-> S("bridge")],
      [x \in {"networkMode"} |-> S("awsvpc")],
      [x \in {"containerDefinitions"} |->
          L(<<D([name |-> S("prefect"), cpu |-> I(256), memory |-> S("512")])>>)],
      [executionRoleArn |-> S("template-role"),
       requiresCompatibilities |-> L(<<S("EC2")>>)] }

\* What describe_task_definition returns for the ARN an ECSTask links to.
LinkedTaskDefinitions ==
    { [taskDefinitionArn |-> S("arn:linked"), family |-> S("linked"),
       containerDefinitions |-> L(<<D([name |-> S("prefect"), image |-> S("image")])>>)],
      [taskDefinitionArn |-> S("arn:linked"), family |-> S("linked"),
       executionRoleArn |-> S("linked-role"),
       containerDefinitions |-> L(<<D([name |-> S("prefect"), image |-> S("image")])>>)] }

\* A networkConfiguration the caller put on the worker's task run request.
CallerNetworkConfiguration ==
    D([x \in {"awsvpcConfiguration"} |->
         D([y \in {"subnets"} |-> L(<<S("subnet-caller")>>)])])

NoFailure == [kind |-> "none", detail |-> "", text |-> {}]
Failure(kind, detail) == [kind |-> kind, detail |-> detail, text |-> {}]

\* ECSTask validators, lines 118-149: configure_cloudwatch_logs defaults to
\* stream_output; logging needs an execution role, a linked definition or a
\* template that carries one.
DefaultConfigureCloudwatchLogs(values) ==
    IF values.configure_cloudwatch_logs = PyNone
    THEN [values EXCEPT !.configure_cloudwatch_logs = B(values.stream_output)]
    ELSE values

RequiresExecutionRoleArn(values) ==
    /\ Truthy(values.configure_cloudwatch_logs)
    /\ ~Truthy(values.execution_role_arn)
    /\ ~Truthy(values.task_definition_arn)
    /\ ~Truthy(Get(PyOr(values.task_definition, D(EmptyDict)).v, "executionRoleArn"))

\* The template's value wins over the explicit one.
ResolveSizeTemplateFirst(explicit, from_template, default) ==
    PyOr(PyOr(from_template, explicit), I(default))

\* self.cpu or task_definition.get("cpu") or ECS_DEFAULT_CPU
ResolveSize(explicit, from_template, default) ==
    PyOr(PyOr(explicit, from_template), I(default))

\* Every incompatible network mode is refused.
NetworkModeOutcomeStrict(network_mode) ==
    IF network_mode # S("awsvpc") THEN "ValueError" ELSE "ok"

\* lines 631-638 (ecs.py), 542-549 (ecs_worker.py): warnings.warn.
NetworkModeOutcome(network_mode) ==
    IF network_mode # S("awsvpc") THEN "warning" ELSE "ok"

\* The 'prefect' container of a task definition that has one.
PrefectContainer(task_definition) ==
    GetPrefectContainer(task_definition["containerDefinitions"].v).v

SetPrefectContainer(task_definition, container) ==
    LET cds == task_definition["containerDefinitions"].v
    IN  Put(task_definition, "containerDefinitions",
            L([cds EXCEPT ![GetContainer(cds, PREFECT_ECS_CONTAINER_NAME)] = D(container)]))

\* ECSTask._prepare_task_definition, lines 593-598.
TaskPrepareContainer(requested) ==
    LET td == SetDefault(requested, "containerDefinitions", L(<<>>))
        cds == td["containerDefinitions"].v
        task_definition ==
            IF GetContainer(cds, PREFECT_ECS_CONTAINER_NAME) = 0
            THEN Put(td, "containerDefinitions",
                     L(Append(cds, D([x \in {"name"} |-> S(PREFECT_ECS_CONTAINER_NAME)]))))
            ELSE td
    IN  SetPrefectContainer(task_definition,
                            Put(PrefectContainer(task_definition), "image", S("image")))

\* lines 600-611.
TaskPrepareLogging(self, task_definition) ==
    SetDefault(
        IF Truthy(self.configure_cloudwatch_logs)
        THEN SetPrefectContainer(task_definition,
                Put(PrefectContainer(task_definition), "logConfiguration",
                    AwsLogsConfiguration))
        ELSE task_definition,
        "family", S("prefect"))

\* lines 617-631, for the FARGATE launch types.
TaskPrepareFargate(task_definition, cpu, memory) ==
    LET a == Put(Put(task_definition, "cpu", PyStr(cpu)), "memory", PyStr(memory))
        rc == SetDefault(a, "requiresCompatibilities", L(<<>>))["requiresCompatibilities"].v
    IN  SetDefault(
            Put(a, "requiresCompatibilities",
                IF \E k \in DOMAIN rc : rc[k] = S("FARGATE")
                THEN L(rc) ELSE L(Append(rc, S("FARGATE")))),
            "networkMode", S("awsvpc"))

\* lines 640-643, for the EC2 launch type.
TaskPrepareEC2(task_definition, cpu, memory) ==
    SetPrefectContainer(task_definition,
        SetDefault(SetDefault(PrefectContainer(task_definition),
                              "cpu", PyInt(cpu)), "memory", PyInt(memory)))

\* lines 613-643.
TaskPrepareSizes(self, task_definition) ==
    LET cpu == ResolveSize(self.cpu, Get(task_definition, "cpu"), ECS_DEFAULT_CPU)
        memory == ResolveSize(self.memory, Get(task_definition, "memory"),
                              ECS_DEFAULT_MEMORY)
    IN  IF self.launch_type = S("FARGATE") \/ self.launch_type = S("FARGATE_SPOT")
        THEN TaskPrepareFargate(task_definition, cpu, memory)
        ELSE IF self.launch_type = S("EC2")
        THEN TaskPrepareEC2(task_definition, cpu, memory)
        ELSE task_definition

\* lines 645-646.
TaskPrepareExecutionRole(self, task_definition) ==
    IF Truthy(self.execution_role_arn) /\ ~Truthy(self.task_definition_arn)
    THEN Put(task_definition, "executionRoleArn", self.execution_role_arn)
    ELSE task_definition

\* ECSTask._prepare_task_definition: the document built.
TaskPrepareTaskDefinition(self, requested) ==
    TaskPrepareExecutionRole(self,
        TaskPrepareSizes(self,
            TaskPrepareLogging(self,
                TaskPrepareContainer(requested))))

\* lines 629-638 (ecs.py), 540-549 (ecs_worker.py): the outcome of the
\* network mode check on the document built.
PrepareNetworkOutcome(launch_type, task_definition) ==
    IF launch_type = S("FARGATE") \/ launch_type = S("FARGATE_SPOT")
    THEN NetworkModeOutcome(task_definition["networkMode"])
    ELSE "ok"

\* lines 648-655: logging without an execution role on the document.
TaskPrepareRaises(self, task_definition) ==
    /\ Truthy(self.configure_cloudwatch_logs)
    /\ ~Truthy(Get(task_definition, "executionRoleArn"))

\* The launch type is always sent as launchType.
TaskLaunchFieldsAlwaysLaunchType(launch_type) ==
    IF Truthy(launch_type)
    THEN [x \in {"launchType"} |-> launch_type]
    ELSE EmptyDict

\* ECSTask._prepare_task_run, lines 757-763.
TaskLaunchFields(launch_type) ==
    IF Truthy(launch_type)
    THEN IF launch_type = S("FARGATE_SPOT")
         THEN [x \in {"capacityProviderStrategy"} |->
                 L(<<D([capacityProvider |-> S("FARGATE_SPOT"), weight |-> I(1)])>>)]
         ELSE [x \in {"launchType"} |-> launch_type]
    ELSE EmptyDict

\* ECSTask._prepare_task_run, without the overrides and the tags.
TaskPrepareTaskRun(self, network_config, task_definition_arn) ==
    LET launch == TaskLaunchFields(self.launch_type)
        a == [k \in DOMAIN launch \cup {"taskDefinition"} |->
                IF k = "taskDefinition" THEN task_definition_arn ELSE launch[k]]
    IN  IF Truthy(network_config) THEN Put(a, "networkConfiguration", network_config) ELSE a

\* ECSWorker._prepare_task_run_request, lines 633-640.
WorkerRequestBase(task_run_request, task_definition_arn) ==
    LET a == SetDefault(task_run_request, "taskDefinition", task_definition_arn)
    IN  IF Get(a, "launchType") = S("FARGATE_SPOT") THEN Pop(a, "launchType") ELSE a

\* The lookup is made for every 'awsvpc' definition.
WorkerNeedsVpcLookupAlways(task_run_request, task_definition) ==
    Get(task_definition, "networkMode") = S("awsvpc")

\* ECSWorker._prepare_task_run_request, lines 647-649.
WorkerNeedsVpcLookup(task_run_request, task_definition) ==
    /\ Get(task_definition, "networkMode") = S("awsvpc")
    /\ ~Truthy(Get(task_run_request, "networkConfiguration"))

\* The message always names the default VPC.
VpcMessageDefault(vpc_id) == "the default VPC"

\* _load_vpc_network_config: vpc_message.
VpcMessage(vpc_id) ==
    IF ~Truthy(vpc_id) THEN "the default VPC" ELSE "VPC with ID " \o vpc_id.v

\* _load_vpc_network_config: the configuration returned for the subnets.
AwsvpcConfiguration(engine, subnets) ==
    LET base == [subnets |-> L(subnets), assignPublicIp |-> S("ENABLED")]
    IN  D([x \in {"awsvpcConfiguration"} |->
            D(IF engine = "worker" THEN Put(base, "securityGroups", L(<<>>)) ELSE base)])

\* The texts of a run_task failure, as the set of the phrases they hold.
FailureTexts ==
    { {},
      {"ClusterNotFoundException"},
      {"No Container Instances"},
      {"ClusterNotFoundException", "No Container Instances"},
      {"failed to validate logger args", "AccessDeniedException"} }

\* The capacity rule applies to every launch type.
ReportTaskRunCreationFailureAnyLaunchType(self, text) ==
    IF "ClusterNotFoundException" \in text
    THEN Failure("RuntimeError: cluster not found", "")
    ELSE IF "No Container Instances" \in text
    THEN Failure("RuntimeError: no container instances", "")
    ELSE Failure("original", "")

\* ECSTask._report_task_run_creation_failure.  The third rule formats
\* self.execution_role, an attribute ECSTask does not have.
ReportTaskRunCreationFailure(self, text) ==
    IF "ClusterNotFoundException" \in text
    THEN Failure("RuntimeError: cluster not found", "")
    ELSE IF "No Container Instances" \in text /\ self.launch_type = S("EC2")
    THEN Failure("RuntimeError: no container instances", "")
    ELSE IF /\ "failed to validate logger args" \in text
            /\ "AccessDeniedException" \in text
            /\ Truthy(self.configure_cloudwatch_logs)
    THEN Failure("AttributeError", "")
    ELSE Failure("original", "")

TaskInputs ==
    { r \in [engine : {"task"},
             launch_type : LaunchTypes \cup {PyNone},
             cpu : {PyNone, I(512)},
             memory : {PyNone, I(1024)},
             task_definition : {PyNone} \cup {D(t) : t \in Templates},
             task_definition_arn : {PyNone, S("arn:linked")},
             linked : LinkedTaskDefinitions,
             configure_cloudwatch_logs : {PyNone, B(TRUE)},
             stream_output : BOOLEAN,
             execution_role_arn : {PyNone, S("role")},
             vpc_id : {PyNone, S("vpc-1")},
             task_run_request : {EmptyDict}] :
        /\ r.task_definition_arn = PyNone => "executionRoleArn" \notin DOMAIN r.linked
        /\ r.task_definition_arn # PyNone => r.task_definition = PyNone
        /\ r.configure_cloudwatch_logs # PyNone => ~r.stream_output }

\* The worker's task run requests: a launchType or none, and no
\* networkConfiguration, an empty one, or one the caller wrote.
WorkerRequests ==
    { [k \in launch \cup network |->
          IF k = "launchType" THEN launch_type ELSE network_configuration] :
        launch \in {{}, {"launchType"}},
        launch_type \in LaunchTypes,
        network \in {{}, {"networkConfiguration"}},
        network_configuration \in {D(EmptyDict), CallerNetworkConfiguration} }

WorkerInputs ==
    { [engine |-> "worker",
       launch_type |-> Get(request, "launchType"),
       cpu |-> PyNone,
       memory |-> PyNone,
       task_definition |-> D(t),
       task_definition_arn |-> PyNone,
       linked |-> CHOOSE d \in LinkedTaskDefinitions : "executionRoleArn" \notin DOMAIN d,
       configure_cloudwatch_logs |-> B(FALSE),
       stream_output |-> FALSE,
       execution_role_arn |-> PyNone,
       vpc_id |-> vpc_id,
       task_run_request |-> request] :
        t \in Templates, request \in WorkerRequests, vpc_id \in {PyNone, S("vpc-1")} }

Fail(kind, detail) ==
    /\ pPc' = "failed"
    /\ pError' = Failure(kind, detail)

\* ECSTask(...): the validators run at construction.
PConstruct ==
    /\ pPc = "construct"
    /\ LET values == DefaultConfigureCloudwatchLogs(pIn)
       IN  /\ pIn' = values
           /\ IF RequiresExecutionRoleArn(values)
              THEN Fail("ValidationError: execution role", "")
              ELSE /\ pPc' = "retrieve"
                   /\ UNCHANGED pError
    /\ UNCHANGED <<pRequested, pDoc, pArn, pReq, pWarned, pCalls>>
    /\ UNCHANGED <<wvars, tvars, lvars, evars>>

\* _create_task_and_wait_for_start, lines 204-209.
PRetrieve ==
    /\ pPc = "retrieve"
    /\ LET requested == IF Truthy(pIn.task_definition_arn)
                        THEN pIn.linked
                        ELSE PyOr(pIn.task_definition, D(EmptyDict)).v
       IN  /\ pRequested' = requested
           /\ pArn' = Get(requested, "taskDefinitionArn")
    /\ pCalls' = IF Truthy(pIn.task_definition_arn)
                 THEN Append(pCalls, "describe_task_definition")
                 ELSE pCalls
    /\ pPc' = "prepare"
    /\ UNCHANGED <<pIn, pDoc, pReq, pWarned, pError>>
    /\ UNCHANGED <<wvars, tvars, lvars, evars>>

\* What follows the preparation of the task definition.
Prepared(outcome, raised, task_definition) ==
    /\ pWarned' = (outcome = "warning")
    /\ IF outcome = "ValueError"
       THEN Fail("ValueError: network mode", "") /\ UNCHANGED pDoc
       ELSE IF raised
       THEN Fail("ValueError: execution role", "") /\ UNCHANGED pDoc
       ELSE /\ pDoc' = task_definition
            /\ pPc' = "register"
            /\ UNCHANGED pError

PreparedTask(self, task_definition) ==
    Prepared(PrepareNetworkOutcome(self.launch_type, task_definition),
             TaskPrepareRaises(self, task_definition),
             task_definition)

\* _create_task_and_wait_for_start, lines 211-213.
PPrepareTask ==
    /\ pPc = "prepare"
    /\ pIn.engine = "task"
    /\ PreparedTask(pIn, TaskPrepareTaskDefinition(pIn, pRequested))
    /\ UNCHANGED <<pIn, pRequested, pArn, pReq, pCalls>>
    /\ UNCHANGED <<wvars, tvars, lvars, evars>>

\* Only a definition without an ARN is registered.
MustRegisterOnlyWithoutArn(task_definition, requested_task_definition, task_definition_arn) ==
    ~Truthy(task_definition_arn)

\* line 216: the register-versus-reuse decision of ECSTask.
MustRegister(task_definition, requested_task_definition, task_definition_arn) ==
    IF task_definition # requested_task_definition
    THEN TRUE
    ELSE ~Truthy(task_definition_arn)

\* _create_task_and_wait_for_start, lines 215-221.
PRegisterTask ==
    /\ pPc = "register"
    /\ pIn.engine = "task"
    /\ IF MustRegister(pDoc, pRequested, pArn)
       THEN /\ pCalls' = Append(pCalls, "register_task_definition")
            /\ pArn' = S("arn:registered")
       ELSE UNCHANGED <<pCalls, pArn>>
    /\ pPc' = "network"
    /\ UNCHANGED <<pIn, pRequested, pDoc, pReq, pWarned, pError>>
    /\ UNCHANGED <<wvars, tvars, lvars, evars>>

\* _create_task_and_wait_for_start, lines 223-231.
PNetworkTask ==
    /\ pPc = "network"
    /\ IF Get(pDoc, "networkMode") = S("awsvpc")
       THEN /\ pPc' = "vpcs"
            /\ UNCHANGED pReq
       ELSE /\ pReq' = TaskPrepareTaskRun(pIn, PyNone, pArn)
            /\ pPc' = "run"
    /\ UNCHANGED <<pIn, pRequested, pDoc, pArn, pWarned, pCalls, pError>>
    /\ UNCHANGED <<wvars, tvars, lvars, evars>>

\* launch_type as ECSWorker reads it, lines 524-526 and 384-386.
WorkerLaunchType(task_run_request) ==
    IF "launchType" \in DOMAIN task_run_request
    THEN task_run_request["launchType"]
    ELSE S(ECS_DEFAULT_LAUNCH_TYPE)

PreparedWorker(launch_type, task_definition) ==
    Prepared(PrepareNetworkOutcome(launch_type, task_definition), FALSE, task_definition)

\* ECSWorker.run, lines 352-354.
PPrepareWorker ==
    /\ pPc = "prepare"
    /\ pIn.engine = "worker"
    /\ PreparedWorker(WorkerLaunchType(pIn.task_run_request),
                      WorkerPrepareTaskDefinition(
                          [task_definition |-> pIn.task_definition.v,
                           launch_type |-> WorkerLaunchType(pIn.task_run_request).v]))
    /\ UNCHANGED <<pIn, pRequested, pArn, pReq, pCalls>>
    /\ UNCHANGED <<wvars, tvars, lvars, evars>>

\* ECSWorker.run, lines 374-398, with nothing cached.
PRegisterWorker ==
    /\ pPc = "register"
    /\ pIn.engine = "worker"
    /\ pCalls' = Append(pCalls, "register_task_definition")
    /\ pArn' = S("arn:registered")
    /\ LET launch_type == WorkerLaunchType(pIn.task_run_request).v
       IN  IF launch_type = "EC2"
           THEN pPc' = "request" /\ UNCHANGED pError
           ELSE IF "requiresCompatibilities" \notin DOMAIN pDoc
           THEN Fail("KeyError", "requiresCompatibilities")
           ELSE IF \A k \in DOMAIN pDoc["requiresCompatibilities"].v :
                      pDoc["requiresCompatibilities"].v[k] # S("FARGATE")
           THEN Fail("RuntimeError: compatibility", "")
           ELSE pPc' = "request" /\ UNCHANGED pError
    /\ UNCHANGED <<pIn, pRequested, pDoc, pReq, pWarned>>
    /\ UNCHANGED <<wvars, tvars, lvars, evars>>

\* ECSWorker._prepare_task_run_request, lines 633-649.
PRequestWorker ==
    /\ pPc = "request"
    /\ LET task_run_request == WorkerRequestBase(pIn.task_run_request, pArn)
       IN  /\ pReq' = task_run_request
           /\ pPc' = IF WorkerNeedsVpcLookup(task_run_request, pDoc) THEN "vpcs" ELSE "run"
    /\ UNCHANGED <<pIn, pRequested, pDoc, pArn, pWarned, pCalls, pError>>
    /\ UNCHANGED <<wvars, tvars, lvars, evars>>

\* _load_vpc_network_config up to the check of the VPCs found.
PDescribeVpcs ==
    /\ pPc = "vpcs"
    /\ pCalls' = Append(pCalls, "describe_vpcs")
    /\ \E found \in BOOLEAN :
         IF found
         THEN pPc' = "subnets" /\ UNCHANGED pError
         ELSE Fail("ValueError: vpc", VpcMessage(pIn.vpc_id))
    /\ UNCHANGED <<pIn, pRequested, pDoc, pArn, pReq, pWarned>>
    /\ UNCHANGED <<wvars, tvars, lvars, evars>>

\* _load_vpc_network_config from describe_subnets on, and the request that
\* receives the configuration.
PDescribeSubnets ==
    /\ pPc = "subnets"
    /\ pCalls' = Append(pCalls, "describe_subnets")
    /\ \E subnets \in {<<>>, <<S("subnet-1")>>} :
         IF subnets = <<>>
         THEN Fail("ValueError: subnets", VpcMessage(pIn.vpc_id)) /\ UNCHANGED pReq
         ELSE LET network_config == AwsvpcConfiguration(pIn.engine, subnets)
              IN  /\ pReq' = IF pIn.engine = "task"
                             THEN TaskPrepareTaskRun(pIn, network_config, pArn)
                             ELSE Put(pReq, "networkConfiguration", network_config)
                  /\ pPc' = "run"
                  /\ UNCHANGED pError
    /\ UNCHANGED <<pIn, pRequested, pDoc, pArn, pWarned>>
    /\ UNCHANGED <<wvars, tvars, lvars, evars>>

\* run_task returns a task.
PRunTaskOk ==
    /\ pPc = "run"
    /\ pCalls' = Append(pCalls, "run_task")
    /\ pPc' = IF pIn.engine = "task" THEN "wait" ELSE "done"
    /\ UNCHANGED <<pIn, pRequested, pDoc, pArn, pReq, pWarned, pError>>
    /\ UNCHANGED <<wvars, tvars, lvars, evars>>

\* run_task raises: ECSTask reports the failure (lines 235-240), the worker
\* lets it through (line 411).
PRunTaskFail ==
    /\ pPc = "run"
    /\ pCalls' = Append(pCalls, "run_task")
    /\ \E text \in FailureTexts :
         pError' = [IF pIn.engine = "task"
                    THEN ReportTaskRunCreationFailure(pIn, text)
                    ELSE Failure("original", "")
                      EXCEPT !.text = text]
    /\ pPc' = "failed"
    /\ UNCHANGED <<pIn, pRequested, pDoc, pArn, pReq, pWarned>>
    /\ UNCHANGED <<wvars, tvars, lvars, evars>>

\* _wait_for_task_start, lines 243-246: the first describe_tasks.
PFirstPoll ==
    /\ pPc = "wait"
    /\ pCalls' = Append(pCalls, "describe_tasks")
    /\ pPc' = "watching"
    /\ UNCHANGED <<pIn, pRequested, pDoc, pArn, pReq, pWarned, pError>>
    /\ UNCHANGED <<wvars, tvars, lvars, evars>>

POff ==
    /\ pIn = CHOOSE r \in WorkerInputs : TRUE
    /\ pPc = "off"
    /\ pRequested = EmptyDict
    /\ pDoc = EmptyDict
    /\ pArn = PyNone
    /\ pReq = EmptyDict
    /\ pWarned = FALSE
    /\ pCalls = <<>>
    /\ pError = NoFailure

PInit ==
    /\ pIn \in TaskInputs \cup WorkerInputs
    /\ pPc = IF pIn.engine = "task" THEN "construct" ELSE "prepare"
    /\ pRequested = EmptyDict
    /\ pDoc = EmptyDict
    /\ pArn = PyNone
    /\ pReq = EmptyDict
    /\ pWarned = FALSE
    /\ pCalls = <<>>
    /\ pError = NoFailure

PNext ==
    \/ PConstruct
    \/ PRetrieve
    \/ PPrepareTask
    \/ PRegisterTask
    \/ PNetworkTask
    \/ PPrepareWorker
    \/ PRegisterWorker
    \/ PRequestWorker
    \/ PDescribeVpcs
    \/ PDescribeSubnets
    \/ PRunTaskOk
    \/ PRunTaskFail
    \/ PFirstPoll

(***************************************************************************)
(* Properties of the preparation and launch (checked under SpecLaunch).    *)
(***************************************************************************)
Called(call) == \E i \in DOMAIN pCalls : pCalls[i] = call

\* The template the preparation starts from.
TemplateGiven ==
    IF pIn.engine = "worker" THEN pIn.task_definition.v
    ELSE IF pIn.task_definition_arn # PyNone THEN pIn.linked
    ELSE IF pIn.task_definition = PyNone THEN EmptyDict
    ELSE pIn.task_definition.v

FargateRequested == pIn.launch_type \in {S("FARGATE"), S("FARGATE_SPOT")}

C13_FargateSizesOnTask ==
    (pDoc # EmptyDict /\ FargateRequested) =>
       LET cpu == IF pIn.cpu # PyNone THEN pIn.cpu
                  ELSE IF "cpu" \in DOMAIN TemplateGiven THEN TemplateGiven["cpu"]
                  ELSE I(1024)
           memory == IF pIn.memory # PyNone THEN pIn.memory
                     ELSE IF "memory" \in DOMAIN TemplateGiven THEN TemplateGiven["memory"]
                     ELSE I(2048)
       IN  /\ pDoc["cpu"].t = "str"
           /\ pDoc["cpu"] = PyStr(cpu)
           /\ pDoc["memory"].t = "str"
           /\ pDoc["memory"] = PyStr(memory)
           /\ \E k \in DOMAIN pDoc["requiresCompatibilities"].v :
                 pDoc["requiresCompatibilities"].v[k] = S("FARGATE")
           /\ "networkMode" \notin DOMAIN TemplateGiven => pDoc["networkMode"] = S("awsvpc")

C13_Witness ==
    /\ pIn.engine = "task"
    /\ pIn.launch_type = S("FARGATE_SPOT")
    /\ pIn.cpu = I(512)
    /\ pIn.memory = PyNone
    /\ "cpu" \in DOMAIN TemplateGiven
    /\ "memory" \in DOMAIN TemplateGiven
    /\ pDoc # EmptyDict
    /\ pDoc["cpu"] = S("512")
    /\ pDoc["memory"] = S("512")

\* C14: for EC2 the 'prefect' container of the document ECSTask built has cpu
\* and memory as integers equal to the explicit value, else the template's
\* task level value, else 1024 and 2048.
C14_EC2SizesOnContainer ==
    (pDoc # EmptyDict /\ pIn.engine = "task" /\ pIn.launch_type = S("EC2")) =>
       LET cpu == IF pIn.cpu # PyNone THEN pIn.cpu
                  ELSE IF "cpu" \in DOMAIN TemplateGiven THEN TemplateGiven["cpu"]
                  ELSE I(1024)
           memory == IF pIn.memory # PyNone THEN pIn.memory
                     ELSE IF "memory" \in DOMAIN TemplateGiven THEN TemplateGiven["memory"]
                     ELSE I(2048)
           container == PrefectContainer(pDoc)
       IN  /\ container["cpu"].t = "int"
           /\ container["cpu"] = PyInt(cpu)
           /\ container["memory"].t = "int"
           /\ container["memory"] = PyInt(memory)

C16_BridgeOnFargateRaises ==
    (/\ pIn.engine = "worker"
     /\ FargateRequested
     /\ Get(TemplateGiven, "networkMode") = S("bridge")
     /\ pPc # "prepare")
    => /\ pError.kind = "ValueError: network mode"
       /\ ~Called("run_task")

\* C17: logging requested with no execution role set, none on the template
\* and none on the linked definition: the run fails with the configuration
\* error, and that error is never raised after a call to the service.
C17_RoleErrorBeforeAnyCall ==
    pIn.engine = "task" =>
      /\ (/\ pIn.configure_cloudwatch_logs = B(TRUE) \/ pIn.stream_output
          /\ pIn.execution_role_arn = PyNone
          /\ "executionRoleArn" \notin DOMAIN TemplateGiven
          /\ pPc \in {"failed", "watching"})
         => pError.kind \in {"ValidationError: execution role",
                             "ValueError: execution role"}
      /\ pError.kind \in {"ValidationError: execution role",
                          "ValueError: execution role"}
         => pCalls = <<>>

\* C18 as stated: the worker looks the VPC up only for an 'awsvpc'
\* definition and a request without networkConfiguration, leaves the
\* caller's networkConfiguration unchanged, and builds a request without
\* networkConfiguration for a definition that is not 'awsvpc'.
C18_NoNetworkConfigurationWithoutAwsvpc ==
    pIn.engine = "worker" =>
      /\ (Called("describe_vpcs") \/ Called("describe_subnets")) =>
            /\ Get(pDoc, "networkMode") = S("awsvpc")
            /\ ~Truthy(Get(pIn.task_run_request, "networkConfiguration"))
      /\ (pReq # EmptyDict /\ Truthy(Get(pIn.task_run_request, "networkConfiguration"))) =>
            Get(pReq, "networkConfiguration")
              = Get(pIn.task_run_request, "networkConfiguration")
      /\ (pReq # EmptyDict /\ Get(pDoc, "networkMode") # S("awsvpc")) =>
            "networkConfiguration" \notin DOMAIN pReq

\* C18 amended: for a definition that is not 'awsvpc' the request has the
\* networkConfiguration the caller wrote, and none when the caller wrote
\* none.
C18_VpcLookupOnlyWhenNeeded ==
    pIn.engine = "worker" =>
      /\ (Called("describe_vpcs") \/ Called("describe_subnets")) =>
            /\ Get(pDoc, "networkMode") = S("awsvpc")
            /\ ~Truthy(Get(pIn.task_run_request, "networkConfiguration"))
      /\ (pReq # EmptyDict /\ Truthy(Get(pIn.task_run_request, "networkConfiguration"))) =>
            Get(pReq, "networkConfiguration")
              = Get(pIn.task_run_request, "networkConfiguration")
      /\ (pReq # EmptyDict /\ Get(pDoc, "networkMode") # S("awsvpc")) =>
            /\ ("networkConfiguration" \in DOMAIN pReq)
                 = ("networkConfiguration" \in DOMAIN pIn.task_run_request)
            /\ Get(pReq, "networkConfiguration")
                 = Get(pIn.task_run_request, "networkConfiguration")

C18_Witness ==
    /\ pIn.engine = "worker"
    /\ pIn.launch_type = S("FARGATE")
    /\ pDoc # EmptyDict
    /\ Get(pDoc, "networkMode") = S("awsvpc")
    /\ Get(pIn.task_run_request, "networkConfiguration") = CallerNetworkConfiguration
    /\ pPc = "done"
    /\ Get(pReq, "networkConfiguration") = CallerNetworkConfiguration
    /\ ~Called("describe_vpcs")

\* C19: when no VPC is found the lookup fails without querying the subnets,
\* when no subnet is found it fails; the error names the default VPC or the
\* explicit VPC id, and no run_task call is made.
C19_VpcLookupFailures ==
    LET named == IF pIn.vpc_id = PyNone THEN "the default VPC" ELSE "VPC with ID vpc-1"
    IN  /\ pError.kind = "ValueError: vpc" =>
             /\ Called("describe_vpcs")
             /\ ~Called("describe_subnets")
             /\ ~Called("run_task")
             /\ pError.detail = named
             /\ pPc = "failed"
        /\ pError.kind = "ValueError: subnets" =>
             /\ Called("describe_subnets")
             /\ ~Called("run_task")
             /\ pError.detail = named
             /\ pPc = "failed"
        /\ Called("describe_subnets") =>
             \E i, j \in DOMAIN pCalls :
                i < j /\ pCalls[i] = "describe_vpcs" /\ pCalls[j] = "describe_subnets"

C19_Witness ==
    /\ pError.kind = "ValueError: subnets"
    /\ pIn.vpc_id = S("vpc-1")
    /\ pError.detail = "VPC with ID vpc-1"
    /\ pIn.engine = "worker"

\* C20: a run_task failure of ECSTask that mentions ClusterNotFoundException
\* is raised as the cluster-not-found error; one that mentions 'No Container
\* Instances' as the no-container-instances error only for EC2; one that
\* matches no rule as the original exception; an error is always raised and
\* no describe_tasks call follows.
C20_LaunchFailureReported ==
    (pIn.engine = "task" /\ Called("run_task") /\ pPc = "failed") =>
      LET cluster == "ClusterNotFoundException" \in pError.text
          instances == "No Container Instances" \in pError.text
          logger == /\ "failed to validate logger args" \in pError.text
                    /\ "AccessDeniedException" \in pError.text
                    /\ pIn.configure_cloudwatch_logs = B(TRUE)
      IN  /\ pError.kind # "none"
          /\ cluster => pError.kind = "RuntimeError: cluster not found"
          /\ pError.kind = "RuntimeError: no container instances" =>
                (instances /\ pIn.launch_type = S("EC2"))
          /\ (instances /\ pIn.launch_type = S("EC2") /\ ~cluster) =>
                pError.kind = "RuntimeError: no container instances"
          /\ (~cluster /\ ~(instances /\ pIn.launch_type = S("EC2")) /\ ~logger) =>
                pError.kind = "original"
          /\ ~Called("describe_tasks")

C20_Witness ==
    /\ pIn.engine = "task"
    /\ pIn.launch_type = S("FARGATE")
    /\ Called("run_task")
    /\ pPc = "failed"
    /\ pError.text = {"No Container Instances"}
    /\ pError.kind = "original"

\* C21: a run_task failure of ECSTask whose text holds both 'failed to
\* validate logger args' and 'AccessDeniedException', with
\* configure_cloudwatch_logs on and no earlier rule matching, is raised as
\* the logging-permission error that names the three logs permissions.
C21_LoggingPermissionErrorRaised ==
    ( /\ pIn.engine = "task"
      /\ Called("run_task")
      /\ pPc = "failed"
      /\ pError.text = {"failed to validate logger args", "AccessDeniedException"}
      /\ pIn.configure_cloudwatch_logs = B(TRUE) ) =>
         pError.kind = "RuntimeError: logging permissions"

\* How many times a call was made to the service.
CallCount(call) == Cardinality({k \in DOMAIN pCalls : pCalls[k] = call})

\* C22: ECSTask registers the built document if and only if the requested
\* definition has no ARN or the built document differs from it; it
\* registers at most once per run; the ARN sent to run_task is the one of
\* the linked definition only if the built document equals that definition,
\* and the one returned by the registration of the built document otherwise.
C22_RegistersOnlyWhenNecessary ==
    pIn.engine = "task" =>
      /\ CallCount("register_task_definition") <= 1
      /\ pPc \in {"network", "vpcs", "subnets", "run", "wait", "watching"} =>
           (Called("register_task_definition") <=>
              (~Truthy(Get(pRequested, "taskDefinitionArn")) \/ pDoc # pRequested))
      /\ Called("run_task") =>
           IF Called("register_task_definition")
           THEN pReq["taskDefinition"] = S("arn:registered")
           ELSE /\ pReq["taskDefinition"] = pIn.task_definition_arn
                /\ Truthy(pIn.task_definition_arn)
                /\ pDoc = pIn.linked

\* A linked definition that needs no change is launched without a
\* registration.
C22_Witness ==
    /\ pIn.engine = "task"
    /\ Called("describe_task_definition")
    /\ Called("run_task")
    /\ ~Called("register_task_definition")
    /\ pReq["taskDefinition"] = S("arn:linked")

\* C23: no register_task_definition call is made before the VPC and subnet
\* lookup has succeeded; a run that fails with a network configuration
\* error has registered no task definition.
C23_NetworkResolvedBeforeRegistration ==
    /\ pError.kind \in {"ValueError: vpc", "ValueError: subnets"} =>
         ~Called("register_task_definition")
    /\ \A k \in DOMAIN pCalls :
         pCalls[k] = "register_task_definition" =>
           \A j \in DOMAIN pCalls : pCalls[j] = "describe_subnets" => j < k

(***************************************************************************)
(* One call of ECSWorker._task_definitions_equal on two task definitions:  *)
(* documents the worker builds, the documents the service holds for them,  *)
(* and None.                                                               *)
(***************************************************************************)
\* A container of a template.
Container(name, image) ==
    [x \in {"name", "image"} |-> IF x = "name" THEN S(name) ELSE S(image)]

\* Templates: the default one; with a network mode; with keys that hold
\* empty values at the top and on the container; with a logConfiguration
\* whose only key holds an empty mapping; with a second container whose
\* essential flag is false; with that container and no flag on it.
EqualTemplates ==
    { Template("img1"),
      Template("img2"),
      Put(Template("img1"), "networkMode", S("bridge")),
      Put(Put(Template("img1"), "volumes", L(<<>>)),
          "containerDefinitions",
          L(<<D(Put(Put(Container("prefect", "img1"), "environment", L(<<>>)),
                    "entryPoint", PyNone))>>)),
      Put(Template("img1"), "containerDefinitions",
          L(<<D(Put(Container("prefect", "img1"), "logConfiguration",
                    D([x \in {"options"} |-> D(EmptyDict)])))>>)),
      Put(Template("img1"), "containerDefinitions",
          L(<<D(Put(Container("prefect", "img1"), "essential", B(TRUE))),
              D(Put(Container("sidecar", "side"), "essential", B(FALSE)))>>)),
      Put(Template("img1"), "containerDefinitions",
          L(<<D(Put(Container("prefect", "img1"), "essential", B(TRUE))),
              D(Container("sidecar", "side"))>>)) }

\* The documents ECSWorker._prepare_task_definition builds from them.
BuiltDocuments ==
    { WorkerPrepareTaskDefinition([task_definition |-> t, launch_type |-> launch_type]) :
        t \in EqualTemplates, launch_type \in {"FARGATE", "EC2"} }

\* What describe_task_definition returns once they are registered.
ServiceDocuments == { ServiceDocument(d, 1) : d \in BuiltDocuments }

\* Line 699: the two definitions are equal as they are.
EIdentical ==
    /\ ePc = "call"
    /\ eDoc1 = eDoc2
    /\ eResult' = B(TRUE)
    /\ ePc' = "done"
    /\ UNCHANGED <<eDoc1, eDoc2, eWork1, eWork2>>
    /\ UNCHANGED <<wvars, tvars, lvars, pvars>>

\* Lines 702-703: one of them is None.
ENone ==
    /\ ePc = "call"
    /\ eDoc1 # eDoc2
    /\ IF eDoc1 = PyNone THEN TRUE ELSE eDoc2 = PyNone
    /\ eResult' = B(FALSE)
    /\ ePc' = "done"
    /\ UNCHANGED <<eDoc1, eDoc2, eWork1, eWork2>>
    /\ UNCHANGED <<wvars, tvars, lvars, pvars>>

\* Lines 705-740: the copies are made and homogenized.
ENormalize ==
    /\ ePc = "call"
    /\ eDoc1 # eDoc2
    /\ eDoc1 # PyNone
    /\ eDoc2 # PyNone
    /\ eWork1' = D(Homogenize(eDoc1.v))
    /\ eWork2' = D(Homogenize(eDoc2.v))
    /\ ePc' = "compare"
    /\ UNCHANGED <<eDoc1, eDoc2, eResult>>
    /\ UNCHANGED <<wvars, tvars, lvars, pvars>>

\* Line 742.
EReturn ==
    /\ ePc = "compare"
    /\ eResult' = B(eWork1 = eWork2)
    /\ ePc' = "done"
    /\ UNCHANGED <<eDoc1, eDoc2, eWork1, eWork2>>
    /\ UNCHANGED <<wvars, tvars, lvars, pvars>>

EOff ==
    /\ eDoc1 = PyNone
    /\ eDoc2 = PyNone
    /\ ePc = "off"
    /\ eWork1 = PyNone
    /\ eWork2 = PyNone
    /\ eResult = PyNone

EInit ==
    /\ eDoc1 \in {D(d) : d \in BuiltDocuments}
    /\ eDoc2 \in {D(d) : d \in BuiltDocuments \cup ServiceDocuments} \cup {PyNone}
    /\ ePc = "call"
    /\ eWork1 = PyNone
    /\ eWork2 = PyNone
    /\ eResult = PyNone

ENext ==
    \/ EIdentical
    \/ ENone
    \/ ENormalize
    \/ EReturn

(***************************************************************************)
(* Properties of _task_definitions_equal (checked under SpecEqual).        *)
(***************************************************************************)
\* C26: a document the worker builds compares equal to the document the
\* service returns after registering it (the document with the fields set
\* on registration, essential on the first container when none is
\* essential, networkMode 'bridge' when it has none, and the service's
\* empty-valued defaults); the call leaves both of its inputs as they were.
C26_RoundTrip ==
    /\ [](( /\ ePc = "done"
            /\ eDoc1 # PyNone
            /\ eDoc2 = D(ServiceDocument(eDoc1.v, 1)) ) => eResult = B(TRUE))
    /\ [][eDoc1' = eDoc1 /\ eDoc2' = eDoc2]_vars

\* A built document without a network mode was found equal to its
\* registered form, which differs from it.
C26_Witness ==
    /\ ePc = "done"
    /\ eDoc1 # PyNone
    /\ "networkMode" \notin DOMAIN eDoc1.v
    /\ eDoc2 = D(ServiceDocument(eDoc1.v, 1))
    /\ eDoc2 # eDoc1
    /\ eWork1 # PyNone
    /\ eResult = B(TRUE)

\* An empty value: an empty string, an empty collection or None.
IsEmptyValue(x) ==
    \/ x.t = "none"
    \/ x.t = "str" /\ x.v = ""
    \/ x.t \in {"list", "dict"} /\ DOMAIN x.v = {}

\* A document without its empty-valued keys, at every depth, a mapping that
\* is left empty included.
RECURSIVE StrippedValue(_), Stripped(_)
StrippedValue(x) ==
    IF x.t = "dict" THEN D(Stripped(x.v))
    ELSE IF x.t = "list" THEN L([i \in DOMAIN x.v |-> StrippedValue(x.v[i])])
    ELSE x
Stripped(d) ==
    LET inner == [k \in DOMAIN d |-> StrippedValue(d[k])]
    IN  [k \in {j \in DOMAIN d : ~IsEmptyValue(inner[j])} |-> inner[k]]

\* C27: two documents that differ only by keys whose values are empty, at
\* any depth and counting a mapping that is empty once its own empty keys
\* are gone, compare equal; and no key of a normalized document holds an
\* empty value at any depth.
C27_EmptyKeysStrippedAtAnyDepth ==
    (ePc = "done" /\ eWork1 # PyNone) =>
      /\ Stripped(eDoc1.v) = Stripped(eDoc2.v) => eResult = B(TRUE)
      /\ Stripped(eWork1.v) = eWork1.v
      /\ Stripped(eWork2.v) = eWork2.v

\* taskdef_2 is taskdef_1 without the `essential: false` of one container,
\* another container of taskdef_1 being essential.
OmitsFalseFlag(taskdef_1, taskdef_2) ==
    LET cds == taskdef_1["containerDefinitions"].v
    IN  \E i \in DOMAIN cds :
          /\ Get(cds[i].v, "essential") = B(FALSE)
          /\ \E j \in DOMAIN cds : Get(cds[j].v, "essential") = B(TRUE)
          /\ taskdef_2 = Put(taskdef_1, "containerDefinitions",
                             L([cds EXCEPT ![i] = D(Pop(cds[i].v, "essential"))]))

\* C28: a key that holds false is kept by the normalization, so a document
\* that sets essential to false on a container, next to an essential one,
\* is not equal to the same document without that key.
C28_FalseFlagKept ==
    ( /\ ePc = "done"
      /\ eDoc1 # PyNone
      /\ eDoc2 # PyNone
      /\ OmitsFalseFlag(eDoc1.v, eDoc2.v) ) => eResult = B(FALSE)

(***************************************************************************)
(* Specifications.                                                         *)
(***************************************************************************)
InitWorker == WInit /\ TOff /\ LOff /\ POff /\ EOff
SpecWorker == InitWorker /\ [][WNext]_vars

InitTask == TInit /\ WOff /\ LOff /\ POff /\ EOff
SpecTask == InitTask /\ [][TNext]_vars

InitLogs == LInit /\ WOff /\ TOff /\ POff /\ EOff

InitLaunch == PInit /\ WOff /\ TOff /\ LOff /\ EOff

InitEqual == EInit /\ WOff /\ TOff /\ LOff /\ POff
SpecEqual == InitEqual /\ [][ENext]_vars
SpecLaunch == InitLaunch /\ [][PNext]_vars
SpecLogs == InitLogs /\ [][LNext]_vars

\* The thread running the watch is scheduled until the run ends.
\* The loop of _stream_available_logs keeps running until it returns.
SpecLogsFair == InitLogs /\ [][LNext]_vars /\ WF_lvars(LPage) /\ WF_lvars(LReturn)

SpecTaskFair == InitTask /\ [][TNext]_vars /\ WF_vars(TProgram)

=============================================================================
